---- MODULE Spec2Model ----
(***************************************************************************)
(* A model of the two analyzers of DXCrawler:                              *)
(*   - the markup-consistency check  (src/lib/checks/check-same-markup.js) *)
(*   - the library-version check     (src/unnamed/part_000)                *)
(*                                                                         *)
(* Strings the code inspects character by character (URLs, version         *)
(* strings) are sequences of one-character strings.  A markup document is  *)
(* abstracted to what countElements reads from it: the number of visible   *)
(* elements per configured tag.  A script's text is abstracted to the set  *)
(* of library signatures the extraction regexes find in it.                *)
(***************************************************************************)
EXTENDS Integers, Sequences, FiniteSets, TLC

VARIABLES
    config,        \* require('./config.js'): the markup check's settings
    charsetBound,  \* whether the free identifier `charset` resolves to a global
    mk,            \* markup checks: one record per check() call
    libraries,     \* the process-wide active registry (part_000:65,251,395,399)
    lc,            \* library checks: one record per check() call
    cv,            \* a direct call of checkVersion: its inputs and its result
    vc,            \* a direct call of compareVersions: its inputs and its result
    lastConfig,    \* the override list of the last merge that returned (at load or by merge)
    mg,            \* a direct call of mergeConfig: its arguments and what it left
    crawl          \* what is being crawled: one page at a time, or a batch of pages at once

vars == <<config, charsetBound, mk, libraries, lc, cv, vc, lastConfig, mg, crawl>>

\* ------------------------------------------------------------------ bounds

\* Largest number of visible elements of one tag in a document.
MaxCount == 2
\* Largest number of scripts on a page.
MaxScripts == 2

\* ------------------------------------------------------------------ helpers

None == << >>
Some(x) == << x >>

Min2(a, b) == IF a <= b THEN a ELSE b
Max2(a, b) == IF a >= b THEN a ELSE b

\* String.prototype.indexOf(sub): the first 0-based offset at which sub occurs
\* in s, or -1.  The empty string occurs at offset 0.
indexOf(s, sub) ==
    LET hits == { i \in 0..(Len(s) - Len(sub)) :
                    SubSeq(s, i + 1, i + Len(sub)) = sub }
    IN  IF hits = {} THEN -1
        ELSE CHOOSE i \in hits : \A j \in hits : i <= j

\* ------------------------------------------------------------------ markup: configuration

ElementNames == {"div", "img"}

\* A parsed document, as countElements sees it: visible elements per tag.
Docs == [ElementNames -> 0..MaxCount]
ZeroDoc == [e \in ElementNames |-> 0]

\* The settings of config.js read by the markup check.  A threshold is a
\* ratio num/den; an element may carry none.
Config1 ==
      [ check_markup_elements |->
            << [name |-> "div"],
               [name |-> "img", threshold |-> [num |-> 1, den |-> 2]] >>,
        check_markup_default_threshold |-> [num |-> 1, den |-> 1],
        check_markup_exclude_list |-> << >> ]

Config2 ==
      [ check_markup_elements |->
            << [name |-> "img", threshold |-> [num |-> 0, den |-> 1]],
               [name |-> "div", threshold |-> [num |-> 1, den |-> 1]] >>,
        check_markup_default_threshold |-> [num |-> 1, den |-> 2],
        check_markup_exclude_list |-> << <<"x">>, <<"a", "d">> >> ]

Configs == {Config1, Config2}

\* ------------------------------------------------------------------ markup: pure functions

\* countElements($, elementName): the visible elements of that tag.
countElements(doc, elementName) == doc[elementName]

isExcludedFrom_first(list, siteUrl) ==
    Len(list) > 0 /\ indexOf(siteUrl, list[1]) > -1

\* isExcluded(siteUrl), with the exclusion list it reads from config.
isExcludedFrom(list, siteUrl) ==
    \E i \in 1..Len(list) : indexOf(siteUrl, list[i]) > -1

\* elementConfig.threshold || config.check_markup_default_threshold:
\* an absent threshold and the number 0 are both falsy.
elementThreshold(elementConfig, cfg) ==
    IF "threshold" \in DOMAIN elementConfig /\ elementConfig.threshold.num # 0
    THEN elementConfig.threshold
    ELSE cfg.check_markup_default_threshold

elementResult_strict(elementConfig, cfg, markup1, markup2) ==
    LET thr == elementThreshold(elementConfig, cfg)
        edgeCount == countElements(markup1, elementConfig.name)
        chromeCount == countElements(markup2, elementConfig.name)
        maxCount == Max2(edgeCount, chromeCount)
    IN  [ element |-> elementConfig.name,
          threshold |-> thr,
          edgeCount |-> edgeCount,
          chromeCount |-> chromeCount,
          passed |-> IF maxCount <= 0 THEN TRUE
                     ELSE Min2(edgeCount, chromeCount) * thr.den > thr.num * maxCount ]

\* The body of compareMarkup's loop: one element's result.
\* min/max >= num/den is decided as min*den >= num*max (max > 0, den > 0).
elementResult(elementConfig, cfg, markup1, markup2) ==
    LET thr == elementThreshold(elementConfig, cfg)
        edgeCount == countElements(markup1, elementConfig.name)
        chromeCount == countElements(markup2, elementConfig.name)
        maxCount == Max2(edgeCount, chromeCount)
    IN  [ element |-> elementConfig.name,
          threshold |-> thr,
          edgeCount |-> edgeCount,
          chromeCount |-> chromeCount,
          passed |-> IF maxCount <= 0 THEN TRUE
                     ELSE Min2(edgeCount, chromeCount) * thr.den >= thr.num * maxCount ]

\* compareMarkup(markup1, markup2): every configured element is compared, in
\* configuration order; passed is the conjunction.
compareMarkup(cfg, markup1, markup2) ==
    LET elems == cfg.check_markup_elements
        elementResults ==
            [ i \in 1..Len(elems) |-> elementResult(elems[i], cfg, markup1, markup2) ]
    IN  [ passed |-> \A i \in 1..Len(elems) : elementResults[i].passed,
          results |-> elementResults ]

\* ------------------------------------------------------------------ markup: fetch and decode

\* website.originalUrl values (character sequences).
OriginalUrls == { <<"a", "b">>, <<"b", "a", "d">>, <<"x">> }

Websites == [originalUrl : OriginalUrls, content : Docs]

TransportError == "ETIMEDOUT"

\* The raw bytes of a response body: nothing at all (a falsy body), text, a
\* gzip stream of text or a raw-deflate stream of text.
Bodies == { [kind |-> "empty", doc |-> ZeroDoc] }
          \cup [kind : {"plain", "gz", "df"}, doc : Docs]

\* response.headers['content-encoding']: "none" stands for an absent header.
Encodings == {"none", "gzip", "deflate", "br"}

Responses == [encoding : Encodings, body : Bodies]

\* The pages of a batch crawl and the answers their servers give.
BatchDocs == { [div |-> 1, img |-> 1], [div |-> 2, img |-> 1] }

BatchWebsites == [originalUrl : { <<"a", "b">> }, content : BatchDocs]

BatchResponses ==
    [encoding : {"none"}, body : [kind : {"plain"}, doc : BatchDocs]]
    \cup { [encoding |-> "gzip", body |-> [kind |-> "gz", doc |-> [div |-> 1, img |-> 1]]],
           [encoding |-> "br", body |-> [kind |-> "plain", doc |-> [div |-> 1, img |-> 1]]] }

\* The websites check is called with, and the responses fetches bring, in a crawl.
WebsitesOf(cr) == IF cr = "batch" THEN BatchWebsites ELSE Websites
ResponsesOf(cr) == IF cr = "batch" THEN BatchResponses ELSE Responses

\* zlib.gunzip / zlib.inflateRaw: the inflated text, or None on a zlib error.
gunzip(body) == IF body.kind = "gz" THEN Some(body.doc) ELSE None
inflateRaw(body) == IF body.kind = "df" THEN Some(body.doc) ELSE None

\* body.toString(charset) of the raw bytes, parsed: compressed bytes hold no tags.
bodyText(body) == IF body.kind = "plain" THEN body.doc ELSE ZeroDoc

\* What the callback inside decompress does when it runs: resolve with the
\* text, reject, or throw.  The file declares no charset: the identifier is
\* looked up on the global object when toString(charset) is evaluated, and
\* the lookup throws a ReferenceError unless some global of that name exists
\* (bound).  A throw inside the callback leaves the deferred unsettled.
decompressOutcome(body, type, bound) ==
    IF type = "gzip" THEN
        IF gunzip(body) # None
        THEN IF bound THEN [kind |-> "resolve", body |-> gunzip(body)[1], text |-> "gzip"]
             ELSE [kind |-> "throw", body |-> ZeroDoc, text |-> "ReferenceError: charset is not defined"]
        ELSE [kind |-> "reject", body |-> ZeroDoc, text |-> "Error found: can't gunzip content"]
    ELSE IF type = "deflate" THEN
        IF inflateRaw(body) # None
        THEN IF bound THEN [kind |-> "resolve", body |-> inflateRaw(body)[1], text |-> "deflate"]
             ELSE [kind |-> "throw", body |-> ZeroDoc, text |-> "ReferenceError: charset is not defined"]
        ELSE [kind |-> "reject", body |-> ZeroDoc, text |-> "Error found: can't deflate content"]
    ELSE [kind |-> "reject", body |-> ZeroDoc, text |-> "Unknown content encoding"]

\* What the promise returned by getBody(response, body) does when its
\* zlib or nextTick callback runs.
getBodyOutcome(response, bound) ==
    IF response.encoding # "none"
    THEN decompressOutcome(response.body, response.encoding, bound)
    ELSE IF response.body.kind # "empty"
         THEN IF bound THEN [kind |-> "resolve", body |-> bodyText(response.body), text |-> "none"]
              ELSE [kind |-> "throw", body |-> ZeroDoc, text |-> "ReferenceError: charset is not defined"]
         ELSE [kind |-> "reject", body |-> ZeroDoc, text |-> "Error found: Empty body"]

\* ------------------------------------------------------------------ markup: check(website)

CheckIds == {"m1"}

ExcludedText == "The site was excluded for this test. See the 'check_markup_exclude_list' setting."
TransientText == "Site candidate for exclude list. The HTML markup for this site presents differences on each request regardless of the user agent."

\* A check that has not been called yet.  fetches, inflight and settled count
\* the request calls, the requests without an answer yet and the calls of
\* deferred.resolve / deferred.reject; netErrors counts the transport errors
\* the fetch collaborator reported.
IdleCheck ==
    [ pc |-> "idle", website |-> None, fetches |-> 0, inflight |-> 0,
      response |-> None, chromeMarkup |-> None, chromeMarkup2 |-> None,
      compareResults |-> None, compareResults2 |-> None,
      result |-> None, error |-> None, settled |-> 0,
      netErrors |-> 0 ]

resolve(m, result) ==
    [m EXCEPT !.pc = "resolved", !.result = Some(result), !.settled = @ + 1]

reject(m, e) ==
    [m EXCEPT !.pc = "rejected", !.error = Some(e), !.settled = @ + 1]

\* request(website.url.href, callback): one more fetch in flight.
request(m, stage) ==
    [m EXCEPT !.pc = stage, !.fetches = @ + 1, !.inflight = @ + 1]

\* check(website), up to its return.
check(cfg, website) ==
    LET m == [IdleCheck EXCEPT !.website = Some(website)]
    IN  IF isExcludedFrom(cfg.check_markup_exclude_list, website.originalUrl)
        THEN resolve(m, [ testName |-> "markup", passed |-> TRUE, excluded |-> TRUE,
                          data |-> ExcludedText ])
        ELSE request(m, "request1")

\* The callback of the first request (lines 156-160).
requestCallback(m, err, response) ==
    LET done == [m EXCEPT !.inflight = @ - 1]
    IN  IF err THEN reject(done, TransportError)
        ELSE [done EXCEPT !.pc = "getBody1", !.response = Some(response)]

firstBody_alwaysRetry(cfg, m, out) ==
    IF out.kind = "resolve"
    THEN request([m EXCEPT !.response = None, !.chromeMarkup = Some(out.body),
                           !.compareResults =
                               Some(compareMarkup(cfg, m.website[1].content, out.body))],
                 "request2")
    ELSE reject([m EXCEPT !.response = None], out.text)

\* The first getBody promise settles (lines 161-201).
firstBody(cfg, m, out) ==
    LET m1 == [m EXCEPT !.response = None]
    IN  IF out.kind = "throw" THEN [m1 EXCEPT !.pc = "thrown"]
        ELSE IF out.kind = "reject" THEN reject(m1, out.text)
        ELSE
            LET edgeMarkup == m.website[1].content
                chromeMarkup == out.body
                compareResults == compareMarkup(cfg, edgeMarkup, chromeMarkup)
                m2 == [m1 EXCEPT !.chromeMarkup = Some(chromeMarkup),
                                 !.compareResults = Some(compareResults)]
            IN  IF compareResults.passed
                THEN resolve(m2, [ testName |-> "markup",
                                   passed |-> compareResults.passed,
                                   data |-> compareResults.results ])
                ELSE request(m2, "request2")

requestCallback2_retry(m, err2, response2) ==
    IF err2 THEN [m EXCEPT !.fetches = @ + 1]
    ELSE [m EXCEPT !.inflight = @ - 1, !.pc = "getBody2", !.response = Some(response2)]

\* The callback of the second request (lines 176-180).
requestCallback2(m, err2, response2) ==
    LET done == [m EXCEPT !.inflight = @ - 1]
    IN  IF err2 THEN reject(done, TransportError)
        ELSE [done EXCEPT !.pc = "getBody2", !.response = Some(response2)]

retryCompare_primary(cfg, edgeMarkup, chromeMarkup, chromeMarkup2) ==
    compareMarkup(cfg, edgeMarkup, chromeMarkup2)

\* Line 183: the retry comparison.
retryCompare(cfg, edgeMarkup, chromeMarkup, chromeMarkup2) ==
    compareMarkup(cfg, chromeMarkup, chromeMarkup2)

\* The second getBody promise settles (lines 181-195).
secondBody(cfg, m, out) ==
    LET m1 == [m EXCEPT !.response = None]
    IN  IF out.kind = "throw" THEN [m1 EXCEPT !.pc = "thrown"]
        ELSE IF out.kind = "reject" THEN reject(m1, out.text)
        ELSE
            LET chromeMarkup2 == out.body
                compareResults == m.compareResults[1]
                compareResults2 == retryCompare(cfg, m.website[1].content,
                                                m.chromeMarkup[1], chromeMarkup2)
                m2 == [m1 EXCEPT !.chromeMarkup2 = Some(chromeMarkup2),
                                 !.compareResults2 = Some(compareResults2)]
            IN  IF compareResults2.passed
                THEN resolve(m2, [ testName |-> "markup",
                                   passed |-> ~compareResults2.passed,
                                   transient |-> ~compareResults2.passed,
                                   data |-> compareResults.results ])
                ELSE resolve(m2, [ testName |-> "markup",
                                   passed |-> ~compareResults2.passed,
                                   transient |-> ~compareResults2.passed,
                                   data |-> TransientText ])

\* ------------------------------------------------------------------ markup: actions

\* The caller calls check(website).
MarkupCheck(c) ==
    /\ mk[c].pc = "idle"
    /\ \E w \in WebsitesOf(crawl) : mk' = [mk EXCEPT ![c] = check(config, w)]
    /\ UNCHANGED <<config, charsetBound, libraries, lc, cv, vc, lastConfig, mg, crawl>>

\* The first fetch completes: with a transport error or with a response.
RequestDone(c) ==
    /\ mk[c].pc = "request1"
    /\ \E err \in BOOLEAN, response \in ResponsesOf(crawl) :
          mk' = [mk EXCEPT ![c] =
                    [requestCallback(mk[c], err, response)
                        EXCEPT !.netErrors = @ + (IF err THEN 1 ELSE 0)]]
    /\ UNCHANGED <<config, charsetBound, libraries, lc, cv, vc, lastConfig, mg, crawl>>

\* A variant of the callback that reads the response a module-level variable
\* holds, the one of whichever check fetched last.
BodyDone_sharedResponse(c) ==
    /\ mk[c].pc = "getBody1"
    /\ \E d \in DOMAIN mk :
          /\ mk[d].response # None
          /\ mk' = [mk EXCEPT ![c] =
                      firstBody(config, mk[c], getBodyOutcome(mk[d].response[1], charsetBound))]
    /\ UNCHANGED <<config, charsetBound, libraries, lc, cv, vc, lastConfig, mg, crawl>>

\* The zlib or nextTick callback of the first getBody runs.
BodyDone(c) ==
    /\ mk[c].pc = "getBody1"
    /\ mk' = [mk EXCEPT ![c] =
                firstBody(config, mk[c], getBodyOutcome(mk[c].response[1], charsetBound))]
    /\ UNCHANGED <<config, charsetBound, libraries, lc, cv, vc, lastConfig, mg, crawl>>

\* The second fetch completes.
Request2Done(c) ==
    /\ mk[c].pc = "request2"
    /\ \E err2 \in BOOLEAN, response2 \in ResponsesOf(crawl) :
          mk' = [mk EXCEPT ![c] =
                    [requestCallback2(mk[c], err2, response2)
                        EXCEPT !.netErrors = @ + (IF err2 THEN 1 ELSE 0)]]
    /\ UNCHANGED <<config, charsetBound, libraries, lc, cv, vc, lastConfig, mg, crawl>>

\* The zlib or nextTick callback of the second getBody runs.
Body2Done(c) ==
    /\ mk[c].pc = "getBody2"
    /\ mk' = [mk EXCEPT ![c] =
                secondBody(config, mk[c], getBodyOutcome(mk[c].response[1], charsetBound))]
    /\ UNCHANGED <<config, charsetBound, libraries, lc, cv, vc, lastConfig, mg, crawl>>

\* ------------------------------------------------------------------ versions: strings and numbers

Digits == {"0", "1", "2", "3", "4", "5", "6", "7", "8", "9"}

DigitVal == [d \in Digits |->
    CASE d = "0" -> 0 [] d = "1" -> 1 [] d = "2" -> 2 [] d = "3" -> 3 [] d = "4" -> 4
      [] d = "5" -> 5 [] d = "6" -> 6 [] d = "7" -> 7 [] d = "8" -> 8 [] d = "9" -> 9]

\* s1 + s2 for strings.
concat(s1, s2) == s1 \o s2

\* The length of the longest run of digits of s that starts at position from.
RECURSIVE digitRun(_, _)
digitRun(s, from) ==
    IF from <= Len(s) /\ s[from] \in Digits THEN 1 + digitRun(s, from + 1) ELSE 0

\* String.prototype.split("."): the parts between the dots; never empty.
RECURSIVE splitFrom(_, _, _)
splitFrom(s, i, part) ==
    IF i > Len(s) THEN << part >>
    ELSE IF s[i] = "." THEN << part >> \o splitFrom(s, i + 1, << >>)
    ELSE splitFrom(s, i + 1, Append(part, s[i]))

split(s) == splitFrom(s, 1, << >>)

\* String.prototype.trim, for the blank the model's alphabet has.
RECURSIVE trimLeft(_)
trimLeft(s) == IF Len(s) > 0 /\ s[1] = " " THEN trimLeft(Tail(s)) ELSE s
RECURSIVE trimRight(_)
trimRight(s) ==
    IF Len(s) > 0 /\ s[Len(s)] = " " THEN trimRight(SubSeq(s, 1, Len(s) - 1)) ELSE s
trim(s) == trimRight(trimLeft(s))

\* The value of a run of decimal digits.
RECURSIVE decimal(_)
decimal(s) ==
    IF Len(s) = 0 THEN 0
    ELSE 10 * decimal(SubSeq(s, 1, Len(s) - 1)) + DigitVal[s[Len(s)]]

NotANumber == [nan |-> TRUE, val |-> 0]

\* Number(x) for a string x over digits, sign, blank and letters: blanks are
\* trimmed, the empty string is 0, an optionally signed digit run is its
\* value, anything else is NaN.
Number(x) ==
    LET t == trim(x)
        signed == Len(t) > 0 /\ t[1] \in {"+", "-"}
        body == IF signed THEN Tail(t) ELSE t
    IN  IF Len(t) = 0 THEN [nan |-> FALSE, val |-> 0]
        ELSE IF Len(body) > 0 /\ digitRun(body, 1) = Len(body)
             THEN [nan |-> FALSE,
                   val |-> IF signed /\ t[1] = "-" THEN 0 - decimal(body) ELSE decimal(body)]
             ELSE NotANumber

\* isValidPart(x): /^\d+$/ tested on the number x converted back to a string.
isValidPart(x) == ~x.nan /\ x.val >= 0

\* A variant of the loop that takes a proper prefix for an equal version.
RECURSIVE compareFrom_lengthBlind(_, _, _)
compareFrom_lengthBlind(v1, v2, i) ==
    IF i > Len(v1) \/ i > Len(v2) THEN "0"
    ELSE IF v1[i].val = v2[i].val THEN compareFrom_lengthBlind(v1, v2, i + 1)
    ELSE IF v1[i].val > v2[i].val THEN "1"
    ELSE "-1"

\* The loop of compareVersions over the numeric parts, from index i (1-based).
RECURSIVE compareFrom(_, _, _)
compareFrom(v1, v2, i) ==
    IF i > Len(v1) THEN (IF Len(v1) # Len(v2) THEN "-1" ELSE "0")
    ELSE IF Len(v2) = i - 1 THEN "1"
    ELSE IF v1[i].val = v2[i].val THEN compareFrom(v1, v2, i + 1)
    ELSE IF v1[i].val > v2[i].val THEN "1"
    ELSE "-1"

\* compareVersions(version1, version2) for two strings: "-1", "0", "1" or "NaN".
compareVersions(version1, version2) ==
    LET p1 == split(version1)
        p2 == split(version2)
        v1 == [i \in 1..Len(p1) |-> Number(p1[i])]
        v2 == [i \in 1..Len(p2) |-> Number(p2[i])]
    IN  IF (\E i \in 1..Len(v1) : ~isValidPart(v1[i]))
           \/ (\E i \in 1..Len(v2) : ~isValidPart(v2[i]))
        THEN "NaN"
        ELSE compareFrom(v1, v2, 1)

\* The values a caller may hand to compareVersions: a string, or something
\* that is not a string.
Str(chars) == [type |-> "string", chars |-> chars]
Undefined == [type |-> "undefined", chars |-> << >>]

\* compareVersions for arguments of any type (lines 320-325): only version1's
\* type is tested, twice; split on a version2 that is not a string throws.
compareVersionsOf(version1, version2) ==
    IF version1.type # "string" THEN "NaN"
    ELSE IF version2.type # "string" THEN "TypeError"
    ELSE compareVersions(version1.chars, version2.chars)

\* ------------------------------------------------------------------ versions: checkVersion

truthy(obj, field) == field \in DOMAIN obj /\ obj[field] # FALSE

\* A variant that leaves every version string as extracted.
normalize_never(library, version) == version

\* Lines 39-46: with patchOptional, version.match(/^(\d+\.\d+)(.*)$/) and, unless
\* the rest starts with a dot and a digit, ".0" is put after the first group.
normalize(library, version) ==
    IF ~truthy(library, "patchOptional") THEN version
    ELSE
        LET n1 == digitRun(version, 1)
            dot == n1 >= 1 /\ Len(version) >= n1 + 1 /\ version[n1 + 1] = "."
            n2 == IF dot THEN digitRun(version, n1 + 2) ELSE 0
            matched == dot /\ n2 >= 1
            head == SubSeq(version, 1, n1 + 1 + n2)
            rest == SubSeq(version, n1 + n2 + 2, Len(version))
            restIsPatch == Len(rest) >= 2 /\ rest[1] = "." /\ rest[2] \in Digits
        IN  IF matched /\ ~restIsPatch THEN head \o <<".", "0">> \o rest ELSE version

\* Does the sequence list hold the element x (Array.prototype.indexOf >= 0)?
includes(list, x) == \E i \in 1..Len(list) : list[i] = x

\* checkVersion(library, version).
checkVersion(library, version) ==
    LET minVersion == concat(library.minVersion.major, library.minVersion.minor)
        normalized == normalize(library, version)
        vinfo == [ name |-> library.name,
                   needsUpdate |-> compareVersions(normalized, minVersion) = "-1",
                   minVersion |-> minVersion,
                   version |-> version ]
    IN  IF "bannedVersions" \in DOMAIN library /\ includes(library.bannedVersions, normalized)
        THEN [ name |-> vinfo.name, needsUpdate |-> TRUE, minVersion |-> vinfo.minVersion,
               version |-> vinfo.version, bannedVersion |-> normalized ]
        ELSE vinfo

\* ------------------------------------------------------------------ libraries: the registry

\* A descriptor of the built-in list: its check closure is named by the
\* signature its regex looks for.
Lib(name, major, minor) ==
    [ name |-> name, minVersion |-> [major |-> major, minor |-> minor],
      check |-> [kind |-> "own", sig |-> name] ]

LibP(name, major, minor, patchOptional) ==
    [ name |-> name, minVersion |-> [major |-> major, minor |-> minor],
      patchOptional |-> patchOptional,
      check |-> [kind |-> "own", sig |-> name] ]

\* function defaultCheck, as the value of a check field.
defaultCheck == [kind |-> "defaultCheck", sig |-> ""]

\* var libraries = [...], which original_libraries keeps.
original_libraries ==
    << Lib("Prototype", <<"1", ".", "6", ".">>, <<"1">>),
       Lib("Dojo", <<"1", ".", "5", ".">>, <<"3">>),
       Lib("Mootools", <<"1", ".", "2", ".">>, <<"6">>),
       Lib("SWFObject", <<"2", ".">>, <<"1">>),
       Lib("jQuery Form Plugin", <<"3", ".">>, <<"1", "9">>),
       Lib("Modernizr", <<"1", ".", "1", ".">>, << >>),
       LibP("jQuery cookie", <<"1", ".", "3", ".">>, <<"1">>, FALSE),
       LibP("hoverIntent", <<"1", ".", "8", ".">>, <<"0">>, FALSE),
       LibP("jQuery Easing", <<"1", ".", "3", ".">>, <<"0">>, TRUE),
       LibP("underscore", <<"1", ".", "0", ".">>, <<"0">>, FALSE),
       LibP("hammer js", <<"2", ".", "0", ".">>, <<"2">>, FALSE),
       LibP("jQuery Superfish", <<"1", ".", "7", ".">>, <<"4">>, FALSE),
       LibP("jQuery mousewheel", <<"3", ".", "1", ".">>, <<"1", "2">>, TRUE),
       LibP("jQuery mobile", <<"1", ".", "4", ".">>, <<"3">>, TRUE),
       Lib("jQuery UI", <<"1", ".", "8", ".">>, <<"2", "4">>),
       LibP("jQuery", <<"1", ".", "6", ".">>, <<"4">>, TRUE) >>

\* for (var n in b) a[n] = b[n]
overlay(a, b) ==
    [ n \in (DOMAIN a) \cup (DOMAIN b) |-> IF n \in DOMAIN b THEN b[n] ELSE a[n] ]

\* if (obj.name): the name is there and is not the empty string.
hasName(obj) == "name" \in DOMAIN obj /\ obj.name # ""

\* libmap[name]: the position in newlibraries of the object filed under name
\* (the last one filed), or 0.
libmapPos(newlibraries, name) ==
    LET ps == { p \in 1..Len(newlibraries) :
                  hasName(newlibraries[p]) /\ newlibraries[p].name = name }
    IN  IF ps = {} THEN 0 ELSE CHOOSE p \in ps : \A q \in ps : q <= p

\* The property names libmap = { } answers without having been given them:
\* it inherits them from Object.prototype, and the value is a function.
InheritedNames == {"constructor"}

\* One turn of libconfig.forEach (lines 269-282) on entry i.  st.newlibraries
\* holds the objects' values; st.refs[p] = j > 0 says that entry p IS the
\* object libconfig[j], j < 0 that it IS the object libraries[-j], and 0 that
\* it is an object of its own; st.libconfig and st.libraries are the caller's
\* objects.  A name libmap inherits is taken for a known one: the loop of
\* lines 280-281 then assigns to a function, whose name is read-only, and in
\* strict mode that throws (st.threw).
mergeStep(st, i) ==
    LET cfg == st.libconfig[i]
        p == libmapPos(st.newlibraries, cfg.name)
    IN  IF st.threw \/ ~hasName(cfg) THEN st
        ELSE IF p = 0 /\ cfg.name \in InheritedNames THEN [st EXCEPT !.threw = TRUE]
        ELSE IF p = 0 THEN
            LET marked == overlay(cfg, [check |-> defaultCheck])
            IN  [st EXCEPT !.newlibraries = Append(@, marked),
                           !.refs = Append(@, i),
                           !.libconfig = [@ EXCEPT ![i] = marked]]
        ELSE
            LET merged == overlay(st.newlibraries[p], cfg)
                r == st.refs[p]
            IN  [st EXCEPT !.newlibraries = [@ EXCEPT ![p] = merged],
                           !.libconfig = IF r > 0 THEN [@ EXCEPT ![r] = merged] ELSE @,
                           !.libraries = IF r < 0 THEN [@ EXCEPT ![0 - r] = merged] ELSE @]

RECURSIVE mergeFrom(_, _)
mergeFrom(st, i) ==
    IF i > Len(st.libconfig) THEN st ELSE mergeFrom(mergeStep(st, i), i + 1)

\* A variant of the first loop that files the default objects themselves
\* instead of copies of them.
mergeConfigState_noCopy(libs, libconfig) ==
    mergeFrom([ newlibraries |-> libs,
                refs |-> [p \in 1..Len(libs) |-> 0 - p],
                libconfig |-> libconfig,
                libraries |-> libs,
                threw |-> FALSE ], 1)

\* mergeConfig(libraries, libconfig): the state after both forEach loops; the
\* first (lines 257-267) files a copy of every default.
mergeConfigState(libs, libconfig) ==
    mergeFrom([ newlibraries |-> libs,
                refs |-> [p \in 1..Len(libs) |-> 0],
                libconfig |-> libconfig,
                libraries |-> libs,
                threw |-> FALSE ], 1)

\* mergeConfig(libraries, libconfig): the list it returns.
mergeConfig(libs, libconfig) == mergeConfigState(libs, libconfig).newlibraries

\* The override lists callers pass to merge.
OverrideLists ==
    { << [name |-> "jQuery", skip |-> TRUE] >>,
      << [name |-> "Prototype", bannedVersions |-> << <<"1", ".", "7", ".", "0">> >>],
         [name |-> "jQuery Easing", bannedVersions |-> << <<"1", ".", "3">> >>] >>,
      << [name |-> "mylib", match |-> "mylib",
          minVersion |-> [major |-> <<"2", ".">>, minor |-> <<"0">>]],
         [match |-> "nameless"] >>,
      << [name |-> "constructor", match |-> "ctor"] >> }

mergeThrows(libs, libconfig) == mergeConfigState(libs, libconfig).threw

\* A variant of merge that merges into the active registry.
merge_onActive(c) ==
    IF c = None THEN original_libraries
    ELSE IF mergeThrows(libraries, c[1]) THEN libraries
    ELSE mergeConfig(libraries, c[1])

\* module.exports.merge(config): the new value of libraries.  None stands for
\* a call without argument.  When mergeConfig throws, the assignment of line
\* 395 is not reached.
merge(c) ==
    IF c = None THEN original_libraries
    ELSE IF mergeThrows(original_libraries, c[1]) THEN libraries
    ELSE mergeConfig(original_libraries, c[1])

\* ------------------------------------------------------------------ libraries: scripts

\* Version strings found in scripts.
V_1_4_2 == <<"1", ".", "4", ".", "2">>
V_1_5_0 == <<"1", ".", "5", ".", "0">>
V_1_7_0 == <<"1", ".", "7", ".", "0">>
V_1_17b2 == <<"1", ".", "1", "7", "b", "2">>
V_1_3 == <<"1", ".", "3">>
V_1_2 == <<"1", ".", "2">>
V_1_0 == <<"1", ".", "0">>

\* The text of a script, as the extraction regexes see it: for each signature
\* found in it, the version string captured.
OldJQuery == { [sig |-> "jQuery", version |-> V_1_4_2] }
OddJQuery == { [sig |-> "jQuery", version |-> V_1_17b2] }
NewPrototype == { [sig |-> "Prototype", version |-> V_1_7_0] }
OldPrototypeAndJQuery ==
    { [sig |-> "Prototype", version |-> V_1_5_0], [sig |-> "jQuery", version |-> V_1_4_2] }
OldMylib == { [sig |-> "mylib", version |-> V_1_0] }

Contents == { OldJQuery, OddJQuery, NewPrototype, OldPrototypeAndJQuery, OldMylib }

\* website.js entries: js.content is None when the script has no content.
\* "embed" is the jsUrl of an inline script.
Scripts ==
    [jsUrl : {"a.js"}, content : {None} \cup { Some(t) : t \in Contents }]
    \cup [jsUrl : {"b.js"}, content : { Some(OldPrototypeAndJQuery) }]
    \cup [jsUrl : {"embed"}, content : { Some(OldJQuery) }]

RECURSIVE SeqsUpTo(_, _)
SeqsUpTo(S, n) ==
    IF n = 0 THEN { << >> }
    ELSE LET shorter == SeqsUpTo(S, n - 1)
         IN  shorter \cup { Append(q, x) : q \in { r \in shorter : Len(r) = n - 1 }, x \in S }

\* The page's markup, as indexOf and split('\n') see it: one script URL per
\* line, after a first line without any.
RECURSIVE pageOf(_)
pageOf(js) ==
    IF Len(js) = 0 THEN << >>
    ELSE pageOf(SubSeq(js, 1, Len(js) - 1)) \o << "\n", js[Len(js)].jsUrl >>

LibWebsites == { [js |-> js, content |-> pageOf(js)] : js \in SeqsUpTo(Scripts, MaxScripts) }

\* The pages of a batch crawl, as the library check sees them.
BatchLibWebsites ==
    { [js |-> js, content |-> pageOf(js)] :
        js \in { << [jsUrl |-> "a.js", content |-> Some(OldJQuery)] >>,
                 << [jsUrl |-> "a.js", content |-> Some(NewPrototype)],
                    [jsUrl |-> "b.js", content |-> Some(OldPrototypeAndJQuery)] >> } }

LibWebsitesOf(cr) == IF cr = "batch" THEN BatchLibWebsites ELSE LibWebsites

\* js.content || ""
textOf(js) == IF js.content # None THEN js.content[1] ELSE {}

\* lib.check.call(lib, scriptText): None for null or false, else the vinfo.
\* A built-in closure looks for its own signature; defaultCheck for this.match.
libCheck(lib, scriptText) ==
    LET sig == IF lib.check.kind = "own" THEN lib.check.sig
               ELSE IF "match" \in DOMAIN lib THEN lib.match ELSE ""
        found == { t \in scriptText : t.sig = sig }
    IN  IF found = {} THEN None
        ELSE Some(checkVersion(lib, (CHOOSE t \in found : TRUE).version))

\* website.content.substr(0, pos).split('\n').length
lineNumberOf(content, jsUrl) ==
    LET hits == { i \in 1..Len(content) : content[i] = jsUrl }
        pos == IF hits = {} THEN 0 ELSE CHOOSE i \in hits : \A j \in hits : i <= j
    IN  1 + Cardinality({ i \in 1..(pos - 1) : content[i] = "\n" })

\* ------------------------------------------------------------------ libraries: checkScript and check

violation(result, js, website) ==
    overlay(result, [ url |-> js.jsUrl,
                      lineNumber |-> lineNumberOf(website.content, js.jsUrl) ])

RECURSIVE checkScriptFrom_noBreak(_, _, _, _, _)
checkScriptFrom_noBreak(libs, js, website, i, status) ==
    IF i > Len(libs) THEN status
    ELSE
        LET lib == libs[i]
            result == libCheck(lib, textOf(js))
        IN  IF truthy(lib, "skip") THEN checkScriptFrom_noBreak(libs, js, website, i + 1, status)
            ELSE IF js.jsUrl # "embed" /\ result # None /\ result[1].needsUpdate
                 THEN checkScriptFrom_noBreak(libs, js, website, i + 1,
                          [passed |-> FALSE, data |-> Some(violation(result[1], js, website))])
                 ELSE checkScriptFrom_noBreak(libs, js, website, i + 1, status)

RECURSIVE checkScriptFrom_noSkip(_, _, _, _, _)
checkScriptFrom_noSkip(libs, js, website, i, status) ==
    IF i > Len(libs) THEN status
    ELSE
        LET lib == libs[i]
            result == libCheck(lib, textOf(js))
        IN  IF js.jsUrl # "embed" /\ result # None /\ result[1].needsUpdate
            THEN [passed |-> FALSE, data |-> Some(violation(result[1], js, website))]
            ELSE checkScriptFrom_noSkip(libs, js, website, i + 1, status)

\* The loop of checkScript (lines 294-313), from registry index i (1-based).
RECURSIVE checkScriptFrom(_, _, _, _, _)
checkScriptFrom(libs, js, website, i, status) ==
    IF i > Len(libs) THEN status
    ELSE
        LET lib == libs[i]
            result == libCheck(lib, textOf(js))
        IN  IF truthy(lib, "skip") THEN checkScriptFrom(libs, js, website, i + 1, status)
            ELSE IF js.jsUrl # "embed" /\ result # None /\ result[1].needsUpdate
                 THEN [passed |-> FALSE, data |-> Some(violation(result[1], js, website))]
                 ELSE checkScriptFrom(libs, js, website, i + 1, status)

checkScript_noBreak(libs, js, website) ==
    checkScriptFrom_noBreak(libs, js, website, 1, [passed |-> TRUE, data |-> None])

checkScript_noSkip(libs, js, website) ==
    checkScriptFrom_noSkip(libs, js, website, 1, [passed |-> TRUE, data |-> None])

\* checkScript(js, website), reading the registry libs.
checkScript(libs, js, website) ==
    checkScriptFrom(libs, js, website, 1, [passed |-> TRUE, data |-> None])

\* The loop of check's deferred callback (lines 374-381), from script i.
RECURSIVE scanFrom(_, _, _, _)
scanFrom(libs, website, i, test) ==
    IF i > Len(website.js) THEN test
    ELSE
        LET result == checkScript(libs, website.js[i], website)
        IN  IF ~result.passed
            THEN scanFrom(libs, website, i + 1,
                          [test EXCEPT !.passed = FALSE, !.data = Append(@, result.data[1])])
            ELSE scanFrom(libs, website, i + 1, test)

\* The test record check resolves with.
scan(libs, website) ==
    scanFrom(libs, website, 1, [testName |-> "jslibs", passed |-> TRUE, data |-> << >>])

LibCheckIds == {"l1"}

\* A library check that has not been called yet.  builtinAtCall keeps whether
\* the active registry was the built-in list when check() was called;
\* registry keeps the registry the scan read.
IdleLibCheck ==
    [ pc |-> "idle", website |-> None, builtinAtCall |-> FALSE,
      registry |-> None, test |-> None ]

\* ------------------------------------------------------------------ libraries: actions

\* A variant of check that scans before it returns.
LibraryCheck_sync(l) ==
    /\ lc[l].pc = "idle"
    /\ \E w \in LibWebsitesOf(crawl) :
          lc' = [lc EXCEPT ![l] =
                    [IdleLibCheck EXCEPT !.pc = "resolved", !.website = Some(w),
                                         !.builtinAtCall = (libraries = original_libraries),
                                         !.registry = Some(libraries),
                                         !.test = Some(scan(libraries, w))]]
    /\ UNCHANGED <<config, charsetBound, mk, libraries, cv, vc, lastConfig, mg, crawl>>

\* The caller calls check(website): the scan is deferred with process.nextTick.
LibraryCheck(l) ==
    /\ lc[l].pc = "idle"
    /\ \E w \in LibWebsitesOf(crawl) :
          lc' = [lc EXCEPT ![l] =
                    [IdleLibCheck EXCEPT !.pc = "scheduled", !.website = Some(w),
                                         !.builtinAtCall = (libraries = original_libraries)]]
    /\ UNCHANGED <<config, charsetBound, mk, libraries, cv, vc, lastConfig, mg, crawl>>

\* The deferred callback runs: it scans against the registry of that moment
\* (kept in the record) and resolves.
LibraryScan(l) ==
    /\ lc[l].pc = "scheduled"
    /\ lc' = [lc EXCEPT ![l] = [@ EXCEPT !.pc = "resolved",
                                         !.registry = Some(libraries),
                                         !.test = Some(scan(libraries, lc[l].website[1]))]]
    /\ UNCHANGED <<config, charsetBound, mk, libraries, cv, vc, lastConfig, mg, crawl>>

\* The caller calls merge(config) or merge().
Merge ==
    /\ \E c \in {None} \cup { Some(o) : o \in OverrideLists } :
          /\ libraries' = merge(c)
          /\ lastConfig' = IF c # None /\ mergeThrows(original_libraries, c[1])
                            THEN lastConfig ELSE c
    /\ UNCHANGED <<config, charsetBound, mk, lc, cv, vc, mg, crawl>>

\* ------------------------------------------------------------------ versions: a direct call

V_1_17 == <<"1", ".", "1", "7">>
V_1_3_0 == <<"1", ".", "3", ".", "0">>
V_1_6_4 == <<"1", ".", "6", ".", "4">>
V_1_1_ == <<"1", ".", "1", ".">>
V_2_0 == <<"2", ".", "0">>

\* The version strings extraction hands to checkVersion.
Versions ==
    { V_1_4_2, V_1_5_0, V_1_7_0, V_1_17b2, V_1_3, V_1_2, V_1_0,
      V_1_17, V_1_3_0, V_1_6_4, V_1_1_, V_2_0 }

IdleCall == [pc |-> "idle", library |-> None, version |-> None, result |-> None]

\* An extraction rule calls checkVersion(this, version) for a descriptor of
\* the active registry.
CallCheckVersion ==
    /\ cv.pc = "idle"
    /\ \E i \in 1..Len(libraries), version \in Versions :
          cv' = [ pc |-> "done", library |-> Some(libraries[i]), version |-> Some(version),
                  result |-> Some(checkVersion(libraries[i], version)) ]
    /\ UNCHANGED <<config, charsetBound, mk, libraries, lc, vc, lastConfig, mg, crawl>>

\* ------------------------------------------------------------------ versions: a direct comparison

\* The arguments compareVersions is called with: dotted digit strings, strings
\* with an empty, signed, blank-padded or lettered part, and a non-string.
CompareInputs ==
    { Str(chars) : chars \in
        { <<"1">>, <<"2">>, V_1_2, V_1_3, V_1_17, V_2_0, V_1_3_0, V_1_6_4,
          <<"1", ".", "2", ".", "0">>, <<"1", ".", "0", "2">>, <<"1", "0", ".", "0">>,
          V_1_1_, <<"1", ".", ".", "2">>, << >>, <<"a", ".", "b">>, V_1_17b2,
          <<" ", "1", ".", "2">>, <<"+", "1", ".", "2">>, <<"-", "1", ".", "2">>,
          <<"1", ".", "-", "0">> } }
    \cup { Undefined }

IdleCompare == [pc |-> "idle", version1 |-> Undefined, version2 |-> Undefined, result |-> ""]

\* A caller calls compareVersions(version1, version2).
CallCompareVersions ==
    /\ vc.pc = "idle"
    /\ \E version1 \in CompareInputs, version2 \in CompareInputs :
          vc' = [ pc |-> "done", version1 |-> version1, version2 |-> version2,
                  result |-> compareVersionsOf(version1, version2) ]
    /\ UNCHANGED <<config, charsetBound, mk, libraries, lc, cv, lastConfig, mg, crawl>>

\* ------------------------------------------------------------------ registry: a direct merge

\* The longest override list handed to mergeConfig.
MaxOverrides == 2

\* The entries of override lists: overrides of built-in descriptors, a new
\* library given twice, an entry without a name, a name libmap inherits.
OverrideEntries ==
    { [name |-> "jQuery", skip |-> TRUE],
      [name |-> "jQuery", patchOptional |-> FALSE,
       minVersion |-> [major |-> <<"1", ".", "9", ".">>, minor |-> <<"1">>]],
      [name |-> "Prototype", bannedVersions |-> << V_1_7_0 >>],
      [name |-> "mylib", match |-> "mylib",
       minVersion |-> [major |-> <<"2", ".">>, minor |-> <<"0">>]],
      [name |-> "mylib", skip |-> TRUE],
      [match |-> "nameless"],
      [name |-> "constructor", match |-> "ctor"] }

\* The default lists handed to mergeConfig: the built-in one (lines 251, 395),
\* a short one and the empty one.
DefaultLists ==
    { original_libraries,
      << Lib("Prototype", <<"1", ".", "6", ".">>, <<"1">>),
         LibP("jQuery", <<"1", ".", "6", ".">>, <<"4">>, TRUE) >>,
      << >> }

IdleMerge == [pc |-> "idle", libraries |-> << >>, libconfig |-> << >>, st |-> None]

\* A caller calls mergeConfig(libraries, libconfig); st is what the call left:
\* the list built, the caller's objects, and whether it threw.
CallMergeConfig ==
    /\ mg.pc = "idle"
    /\ \E libs \in DefaultLists, libconfig \in SeqsUpTo(OverrideEntries, MaxOverrides) :
          mg' = [ pc |-> "done", libraries |-> libs, libconfig |-> libconfig,
                  st |-> Some(mergeConfigState(libs, libconfig)) ]
    /\ UNCHANGED <<config, charsetBound, mk, libraries, lc, cv, vc, lastConfig, crawl>>

\* ------------------------------------------------------------------ specifications

\* The markup check alone.
InitMarkup ==
    /\ config \in Configs
    /\ charsetBound \in BOOLEAN
    /\ mk = [c \in CheckIds |-> IdleCheck]
    /\ libraries = original_libraries
    /\ lc = [l \in LibCheckIds |-> IdleLibCheck]
    /\ cv = IdleCall
    /\ vc = IdleCompare
    /\ lastConfig = None
    /\ mg = IdleMerge
    /\ crawl = "page"

\* A step of check c.
MarkupStep(c) ==
    \/ MarkupCheck(c)
    \/ RequestDone(c)
    \/ BodyDone(c)
    \/ Request2Done(c)
    \/ Body2Done(c)

NextMarkup == \E c \in CheckIds : MarkupStep(c)

SpecMarkup == InitMarkup /\ [][NextMarkup]_vars

\* The override lists a check-libs.json may hold for the module to load
\* (lines 25-29, 250-251).
LoadableLists == { o \in OverrideLists : ~mergeThrows(original_libraries, o) }

\* The library check, with merge calls at any moment; the registry starts as
\* the load left it, merged with the override file when there is one.
InitLibs ==
    /\ config = Config1
    /\ charsetBound = TRUE
    /\ mk = [c \in CheckIds |-> IdleCheck]
    /\ lastConfig \in {None} \cup { Some(o) : o \in LoadableLists }
    /\ libraries = IF lastConfig = None THEN original_libraries
                   ELSE mergeConfig(original_libraries, lastConfig[1])
    /\ lc = [l \in LibCheckIds |-> IdleLibCheck]
    /\ cv = IdleCall
    /\ vc = IdleCompare
    /\ mg = IdleMerge
    /\ crawl = "page"

NextLibs ==
    \/ \E l \in LibCheckIds : LibraryCheck(l)
    \/ \E l \in LibCheckIds : LibraryScan(l)
    \/ Merge

SpecLibs == InitLibs /\ [][NextLibs]_vars

\* checkVersion called on any descriptor of any registry merge can build.
NextVersion ==
    \/ Merge
    \/ CallCheckVersion

SpecVersion == InitLibs /\ [][NextVersion]_vars

\* compareVersions called on any two arguments.
NextCompare == CallCompareVersions

SpecCompare == InitLibs /\ [][NextCompare]_vars

\* mergeConfig called on any default list and any override list.
NextMerge == CallMergeConfig

SpecMerge == InitLibs /\ [][NextMerge]_vars

\* A batch crawl: two markup checks and two library checks in flight at once,
\* their callbacks in any order, and no merge call.
BatchCheckIds == {"m1", "m2"}
BatchLibCheckIds == {"l1", "l2"}

InitBatch ==
    /\ config = Config1
    /\ charsetBound \in BOOLEAN
    /\ mk = [c \in BatchCheckIds |-> IdleCheck]
    /\ lastConfig = None
    /\ libraries = original_libraries
    /\ lc = [l \in BatchLibCheckIds |-> IdleLibCheck]
    /\ cv = IdleCall
    /\ vc = IdleCompare
    /\ mg = IdleMerge
    /\ crawl = "batch"

NextBatch ==
    \/ \E c \in BatchCheckIds : MarkupStep(c)
    \/ \E l \in BatchLibCheckIds : LibraryCheck(l)
    \/ \E l \in BatchLibCheckIds : LibraryScan(l)

SpecBatch == InitBatch /\ [][NextBatch]_vars

\* ------------------------------------------------------------------ claims: the markup check

\* sub occurs in s as a substring.
Contains(s, sub) ==
    \E i \in 1..(Len(s) + 1), j \in 0..Len(s) : SubSeq(s, i, j) = sub

\* C1: once the first comparison has failed and the third fetch is decoded,
\* the retry comparison is the one of the second-fetch markup with the
\* third-fetch markup, and it alone decides: failed -> passed, transient and
\* the explanatory string; passed -> not passed, with the results of the
\* first comparison as data.
C1_RetryDecides ==
    \A c \in CheckIds :
        LET m == mk[c] IN
        (m.compareResults # None /\ m.chromeMarkup2 # None) =>
            LET first == compareMarkup(config, m.website[1].content, m.chromeMarkup[1])
                retry == compareMarkup(config, m.chromeMarkup[1], m.chromeMarkup2[1])
                result == m.result[1]
            IN  /\ ~first.passed
                /\ m.pc = "resolved"
                /\ m.compareResults2 = Some(retry)
                /\ IF retry.passed
                   THEN result.passed = FALSE /\ result.data = first.results
                   ELSE /\ result.passed = TRUE
                        /\ result.transient = TRUE
                        /\ result.data = TransientText

\* C1 witness: a check ended Failed after a retry whose third markup differs
\* from the primary markup.
C1_Witness ==
    \E c \in CheckIds :
        /\ mk[c].pc = "resolved"
        /\ mk[c].chromeMarkup2 # None
        /\ mk[c].compareResults2[1].passed
        /\ mk[c].result[1].passed = FALSE
        /\ ~compareMarkup(config, mk[c].website[1].content, mk[c].chromeMarkup2[1]).passed

\* C2: the fetches of one check are sequential and conditional: never two in
\* flight, never more than two; the first comparison runs on a decoded first
\* fetch; a second fetch exists only after a failed first comparison and the
\* retry comparison only after the second fetch has answered; one fetch
\* exactly when the first comparison passes.
C2_SequentialFetches ==
    \A c \in CheckIds :
        LET m == mk[c] IN
        /\ m.inflight <= 1
        /\ m.fetches <= 2
        /\ (m.inflight = 1) <=> (m.pc \in {"request1", "request2"})
        /\ m.compareResults # None =>
              m.fetches >= 1 /\ m.chromeMarkup # None /\ m.pc # "getBody1"
        /\ m.fetches = 2 => m.compareResults # None /\ ~m.compareResults[1].passed
        /\ m.compareResults2 # None =>
              m.fetches = 2 /\ m.inflight = 0 /\ m.response = None
        /\ (m.compareResults # None /\ m.compareResults[1].passed) =>
              m.fetches = 1 /\ m.pc = "resolved"

\* C2 witness: the second fetch is in flight, after a failed first comparison.
C2_Witness ==
    \E c \in CheckIds :
        /\ mk[c].pc = "request2"
        /\ mk[c].fetches = 2
        /\ ~mk[c].compareResults[1].passed

\* C3: a website whose original URL contains an excluded string is resolved
\* passed and excluded without any fetch; any other website gets at least one
\* fetch and is never reported excluded.
C3_Exclusion ==
    \A c \in CheckIds :
        LET m == mk[c] IN
        m.website # None =>
            LET list == config.check_markup_exclude_list
                excluded == \E i \in 1..Len(list) : Contains(m.website[1].originalUrl, list[i])
            IN  IF excluded
                THEN /\ m.pc = "resolved"
                     /\ m.result[1].passed = TRUE
                     /\ "excluded" \in DOMAIN m.result[1]
                     /\ m.result[1].excluded = TRUE
                     /\ m.fetches = 0
                ELSE /\ m.fetches >= 1
                     /\ m.result # None => "excluded" \notin DOMAIN m.result[1]

\* C3 witness: a website excluded by the second entry of the list, in the
\* middle of its URL.
C3_Witness ==
    \E c \in CheckIds :
        /\ mk[c].website # None
        /\ mk[c].website[1].originalUrl = <<"b", "a", "d">>
        /\ Len(config.check_markup_exclude_list) = 2
        /\ mk[c].pc = "resolved"
        /\ mk[c].fetches = 0

\* C4: a transport error on either fetch ends the check rejected with that
\* error: no result, no comparison after the error, no fetch after it.
C4_TransportErrorRejects ==
    \A c \in CheckIds :
        LET m == mk[c] IN
        m.netErrors >= 1 =>
            /\ m.netErrors = 1
            /\ m.pc = "rejected"
            /\ m.error = Some(TransportError)
            /\ m.result = None
            /\ m.settled = 1
            /\ m.inflight = 0
            /\ m.response = None
            /\ m.compareResults2 = None
            /\ m.fetches = 1 => m.compareResults = None /\ m.chromeMarkup = None
            /\ m.chromeMarkup2 = None
            /\ ~ENABLED MarkupStep(c)

\* C4 witness: the retry fetch failed.
C4_Witness ==
    \E c \in CheckIds :
        /\ mk[c].netErrors = 1
        /\ mk[c].fetches = 2
        /\ mk[c].pc = "rejected"

\* C5: the step that decodes a fetched response (the first or the second
\* one): a gzip or deflate body that inflates yields the inflated text, a
\* body under no content-encoding that is not empty yields its text, and the
\* check goes on with it; every other case (another encoding, an empty body,
\* a stream zlib refuses) rejects the check there, with no result and no
\* further fetch.
DecodedAsClaimed(m, n) ==
    LET r == m.response[1]
        got == IF m.pc = "getBody1" THEN n.chromeMarkup ELSE n.chromeMarkup2
        goesOn == n.pc \in {"resolved", "request2"}
        rejectedHere == /\ n.pc = "rejected"
                        /\ n.result = None
                        /\ n.fetches = m.fetches
                        /\ n.inflight = 0
    IN  IF r.encoding = "gzip" /\ gunzip(r.body) # None
        THEN got = gunzip(r.body) /\ goesOn
        ELSE IF r.encoding = "deflate" /\ inflateRaw(r.body) # None
        THEN got = inflateRaw(r.body) /\ goesOn
        ELSE IF r.encoding = "none" /\ r.body.kind # "empty"
        THEN got = Some(bodyText(r.body)) /\ goesOn
        ELSE rejectedHere

C5_DecodeContract ==
    [][ \A c \in CheckIds :
            (mk[c].pc \in {"getBody1", "getBody2"} /\ mk'[c] # mk[c])
                => DecodedAsClaimed(mk[c], mk'[c]) ]_vars

\* C6: compareMarkup returns one entry per configured element, in
\* configuration order; an entry passes iff both counts are 0 or
\* min/max >= the threshold in force for the element; the whole passes iff
\* every entry passes; identical markup passes with every entry passing.
ComparisonAsClaimed(cfg, cr, docA, docB) ==
    LET elems == cfg.check_markup_elements IN
    /\ Len(cr.results) = Len(elems)
    /\ \A i \in 1..Len(elems) :
          LET e == cr.results[i]
              cA == docA[elems[i].name]
              cB == docB[elems[i].name]
              lo == IF cA < cB THEN cA ELSE cB
              hi == IF cA < cB THEN cB ELSE cA
          IN  /\ e.element = elems[i].name
              /\ e.edgeCount = cA /\ e.chromeCount = cB
              /\ e.threshold = (IF "threshold" \in DOMAIN elems[i] /\ elems[i].threshold.num > 0
                                THEN elems[i].threshold
                                ELSE cfg.check_markup_default_threshold)
              /\ e.passed <=> \/ (cA = 0 /\ cB = 0)
                              \/ (hi > 0 /\ lo * e.threshold.den >= e.threshold.num * hi)
    /\ cr.passed <=> \A i \in 1..Len(elems) : cr.results[i].passed
    /\ docA = docB => cr.passed /\ \A i \in 1..Len(elems) : cr.results[i].passed

C6_CompareMarkup ==
    \A c \in CheckIds :
        LET m == mk[c] IN
        /\ m.compareResults # None =>
              ComparisonAsClaimed(config, m.compareResults[1],
                                  m.website[1].content, m.chromeMarkup[1])
        /\ m.compareResults2 # None =>
              ComparisonAsClaimed(config, m.compareResults2[1],
                                  m.chromeMarkup[1], m.chromeMarkup2[1])

\* C6 witness: the first element fails and the second is still compared, at
\* a ratio equal to its threshold.
C6_Witness ==
    \E c \in CheckIds :
        /\ mk[c].compareResults # None
        /\ config = Config1
        /\ ~mk[c].compareResults[1].results[1].passed
        /\ mk[c].compareResults[1].results[2].passed
        /\ mk[c].compareResults[1].results[2].edgeCount = 1
        /\ mk[c].compareResults[1].results[2].chromeCount = 2

\* ------------------------------------------------------------------ claims: the library check

\* The descriptors of reg (by position) that make script js a violation: not
\* flagged skip, the script not inline, and the extraction rule's result on
\* the script's text has needsUpdate.
Violating(reg, js) ==
    { i \in 1..Len(reg) :
        /\ ~("skip" \in DOMAIN reg[i] /\ reg[i].skip = TRUE)
        /\ js.jsUrl # "embed"
        /\ LET r == libCheck(reg[i], IF js.content = None THEN {} ELSE js.content[1])
           IN  r # None /\ r[1].needsUpdate = TRUE }

\* The scripts of a page (by position) with a violating descriptor.
ViolatingScripts(reg, website) ==
    { k \in 1..Len(website.js) : Violating(reg, website.js[k]) # {} }

Least(S) == CHOOSE x \in S : \A y \in S : x <= y

C8_PassedIffNoViolation ==
    \A l \in LibCheckIds :
        lc[l].pc = "resolved" =>
            LET reg == lc[l].registry[1]
                w == lc[l].website[1]
                test == lc[l].test[1]
                none == \A k \in 1..Len(w.js), i \in 1..Len(reg) : i \notin Violating(reg, w.js[k])
            IN  /\ (test.passed = TRUE /\ test.data = << >>) <=> none
                /\ ~none => test.passed = FALSE

\* C8 witness: a check passed although one script holds an outdated library
\* whose descriptor is flagged skip and an inline script holds another.
C8_Witness ==
    \E l \in LibCheckIds :
        /\ lc[l].pc = "resolved"
        /\ lc[l].test[1].passed
        /\ \E i \in 1..Len(lc[l].registry[1]) :
              /\ truthy(lc[l].registry[1][i], "skip")
              /\ \E k \in 1..Len(lc[l].website[1].js) :
                    LET js == lc[l].website[1].js[k]
                        r == libCheck(lc[l].registry[1][i], textOf(js))
                    IN  js.jsUrl # "embed" /\ r # None /\ r[1].needsUpdate
        /\ \E k \in 1..Len(lc[l].website[1].js) :
              /\ lc[l].website[1].js[k].jsUrl = "embed"
              /\ \E i \in 1..Len(lc[l].registry[1]) :
                    LET r == libCheck(lc[l].registry[1][i], textOf(lc[l].website[1].js[k]))
                    IN  r # None /\ r[1].needsUpdate

\* C9: needsUpdate is true exactly when the comparison with minVersion gives
\* -1, except that a version string which, as extracted, is one of the
\* descriptor's bannedVersions has needsUpdate true and carries bannedVersion,
\* with patchOptional too.
C9_BannedAsExtracted ==
    cv.pc = "done" =>
        LET lib == cv.library[1]
            version == cv.version[1]
            r == cv.result[1]
            banned == /\ "bannedVersions" \in DOMAIN lib
                      /\ \E i \in 1..Len(lib.bannedVersions) : lib.bannedVersions[i] = version
            cmp == compareVersions(normalize(lib, version),
                                   lib.minVersion.major \o lib.minVersion.minor)
        IN  IF banned
            THEN r.needsUpdate = TRUE /\ "bannedVersion" \in DOMAIN r
            ELSE r.needsUpdate <=> (cmp = "-1")

\* C10: a library whose extracted version the comparator cannot compare
\* (NaN) is not reported as up to date: a page with such a script is not
\* resolved passed.
C10_IncomparableNotPassed ==
    \A l \in LibCheckIds :
        lc[l].pc = "resolved" =>
            LET reg == lc[l].registry[1]
                w == lc[l].website[1]
                incomparable ==
                    \E k \in 1..Len(w.js), i \in 1..Len(reg) :
                        /\ ~truthy(reg[i], "skip")
                        /\ w.js[k].jsUrl # "embed"
                        /\ LET r == libCheck(reg[i], textOf(w.js[k]))
                           IN  /\ r # None
                               /\ compareVersions(normalize(reg[i], r[1].version),
                                                  r[1].minVersion) = "NaN"
            IN  incomparable => lc[l].test[1].passed # TRUE

\* ------------------------------------------------------------------ claims: the comparator

\* Pure digit text, /^\d+$/ on the text of a part.
PureDigits(part) == Len(part) > 0 /\ \A i \in 1..Len(part) : part[i] \in Digits

\* A string whose every dot-separated part is pure digit text.
WellFormed(x) ==
    /\ x.type = "string"
    /\ \A i \in 1..Len(split(x.chars)) : PureDigits(split(x.chars)[i])

\* C11: compare returns NaN whenever an argument is not a string or has a
\* part that is not pure digit text (an empty part, a sign, a blank, a
\* letter), and returns -1, 0 or 1 only when every part of both arguments is
\* pure digit text.
C11_NaNUnlessPureDigits ==
    vc.pc = "done" =>
        /\ (~WellFormed(vc.version1) \/ ~WellFormed(vc.version2)) => vc.result = "NaN"
        /\ vc.result \in {"-1", "0", "1"} => WellFormed(vc.version1) /\ WellFormed(vc.version2)

\* The integer values of the parts of a well-formed string.
PartValues(x) == [i \in 1..Len(split(x.chars)) |-> decimal(split(x.chars)[i])]

\* The order the claim gives two well-formed strings.
Ordered(a, b) ==
    LET pa == PartValues(a)
        pb == PartValues(b)
        differing == { i \in 1..Min2(Len(pa), Len(pb)) : pa[i] # pb[i] }
        first == CHOOSE i \in differing : \A j \in differing : i <= j
    IN  IF differing # {} THEN (IF pa[first] > pb[first] THEN "1" ELSE "-1")
        ELSE IF Len(pa) < Len(pb) THEN "-1"
        ELSE IF Len(pa) > Len(pb) THEN "1"
        ELSE "0"

Negated(r) == CASE r = "-1" -> "1" [] r = "1" -> "-1" [] OTHER -> r

\* C12: on well-formed strings compare(a, a) = 0, the first differing part
\* decides by integer order, a proper prefix is the lesser (-1 when a is the
\* shorter, 1 when a is the longer), and compare(a, b) = -compare(b, a).
C12_TotalOrder ==
    (vc.pc = "done" /\ WellFormed(vc.version1) /\ WellFormed(vc.version2)) =>
        /\ vc.result = Ordered(vc.version1, vc.version2)
        /\ vc.version1 = vc.version2 => vc.result = "0"
        /\ vc.result = Negated(compareVersionsOf(vc.version2, vc.version1))

C12_Witness ==
    /\ vc.pc = "done"
    /\ vc.version1 = Str(V_1_2)
    /\ vc.version2 = Str(<<"1", ".", "2", ".", "0">>)
    /\ vc.result = "-1"

\* ------------------------------------------------------------------ claims: mergeConfig

\* The entries of the override list cfgs that carry the name name.
Named(cfgs, name) == { j \in 1..Len(cfgs) : hasName(cfgs[j]) /\ cfgs[j].name = name }

\* The last entry of cfgs named name that has the field f; 0 when none has.
LastWith(cfgs, name, f) ==
    LET js == { j \in Named(cfgs, name) : f \in DOMAIN cfgs[j] }
    IN  IF js = {} THEN 0 ELSE CHOOSE j \in js : \A k \in js : k <= j

\* C13: for an override named as a default, the descriptor of the returned
\* registry has the override's value for every field the override has and the
\* default's value for every other field (its extraction rule too), it keeps
\* the default's position, and the default object handed in is unchanged.
C13_OverrideOverlay ==
    mg.pc = "done" =>
        LET libs == mg.libraries
            cfgs == mg.libconfig
            out == mg.st[1].newlibraries
        IN  /\ mg.st[1].libraries = libs
            /\ ~mg.st[1].threw =>
                 \A p \in 1..Len(libs) :
                    Named(cfgs, libs[p].name) # {} =>
                        /\ out[p].name = libs[p].name
                        /\ DOMAIN out[p] = (DOMAIN libs[p]) \cup
                              UNION { DOMAIN cfgs[j] : j \in Named(cfgs, libs[p].name) }
                        /\ \A f \in DOMAIN out[p] :
                              out[p][f] = IF LastWith(cfgs, libs[p].name, f) # 0
                                          THEN cfgs[LastWith(cfgs, libs[p].name, f)][f]
                                          ELSE libs[p][f]

C13_Witness ==
    /\ mg.pc = "done"
    /\ mg.libraries = original_libraries
    /\ mg.libconfig = << [name |-> "jQuery", skip |-> TRUE] >>
    /\ mg.st[1].newlibraries[16].skip = TRUE
    /\ mg.st[1].newlibraries[16].check = original_libraries[16].check
    /\ "skip" \notin DOMAIN mg.st[1].libraries[16]

\* C15: for a default list with unique names and any override list, entries
\* without a name change nothing, each distinct new name adds exactly one
\* descriptor, after all defaults, with the generic extraction rule, and the
\* names of the merged registry are unique.
C15_NewNamesAppendedOnce ==
    mg.pc = "done" =>
        LET libs == mg.libraries
            cfgs == mg.libconfig
            out == mg.st[1].newlibraries
            newNames == { cfgs[j].name : j \in { k \in 1..Len(cfgs) : hasName(cfgs[k]) } }
                           \ { libs[p].name : p \in 1..Len(libs) }
        IN  /\ ~mg.st[1].threw
            /\ out = mergeConfig(libs, SelectSeq(cfgs, hasName))
            /\ Len(out) = Len(libs) + Cardinality(newNames)
            /\ \A p \in 1..Len(libs) : out[p].name = libs[p].name
            /\ \A n \in newNames :
                  \E p \in (Len(libs) + 1)..Len(out) :
                      out[p].name = n /\ out[p].check = defaultCheck
            /\ \A p, q \in 1..Len(out) : p # q => out[p].name # out[q].name

\* ------------------------------------------------------------------ claims: the active registry

\* C14: after any sequence of merge calls the active registry is decided by
\* the last call that returned alone: mergeConfig of the built-in defaults and
\* its argument, or the built-in list itself after merge(); a library check
\* scanned after merge() gives what it gives on the built-in list.
C14_LastMergeDecides ==
    /\ [](libraries = IF lastConfig = None THEN original_libraries
                      ELSE mergeConfig(original_libraries, lastConfig[1]))
    /\ [][\A l \in LibCheckIds :
            (lastConfig = None /\ lc[l].pc = "scheduled" /\ lc'[l].pc = "resolved") =>
                lc'[l].test = Some(scan(original_libraries, lc[l].website[1]))]_vars

C14_Witness ==
    /\ lastConfig = None
    /\ libraries = original_libraries
    /\ \E l \in LibCheckIds :
          /\ lc[l].pc = "resolved"
          /\ lc[l].registry # Some(original_libraries)

\* ------------------------------------------------------------------ claims: checks in flight at once

\* The records a markup check can move to from m when it runs alone: what its
\* next callback makes of its own record and of the answer to its own fetch.
AloneMoves(m) ==
    IF m.pc = "idle" THEN { check(config, w) : w \in WebsitesOf(crawl) }
    ELSE IF m.pc = "request1" THEN
        { [requestCallback(m, err, r) EXCEPT !.netErrors = @ + (IF err THEN 1 ELSE 0)] :
            err \in BOOLEAN, r \in ResponsesOf(crawl) }
    ELSE IF m.pc = "getBody1" THEN
        { firstBody(config, m, getBodyOutcome(m.response[1], charsetBound)) }
    ELSE IF m.pc = "request2" THEN
        { [requestCallback2(m, err, r) EXCEPT !.netErrors = @ + (IF err THEN 1 ELSE 0)] :
            err \in BOOLEAN, r \in ResponsesOf(crawl) }
    ELSE IF m.pc = "getBody2" THEN
        { secondBody(config, m, getBodyOutcome(m.response[1], charsetBound)) }
    ELSE { }

\* The same for a library check, no merge call being made.
AloneLibMoves(r) ==
    IF r.pc = "idle" THEN
        { [IdleLibCheck EXCEPT !.pc = "scheduled", !.website = Some(w),
                               !.builtinAtCall = TRUE] :
            w \in LibWebsitesOf(crawl) }
    ELSE IF r.pc = "scheduled" THEN
        { [r EXCEPT !.pc = "resolved", !.registry = Some(original_libraries),
                    !.test = Some(scan(original_libraries, r.website[1]))] }
    ELSE { }

\* C16: checks share no mutable state.  With several markup checks and
\* library checks in flight and their callbacks in any order, every step is
\* the step of one check, leaves every other check as it was, and is a step
\* that check takes when it runs alone on its own website and its own fetch
\* responses; so each check settles as it does alone.
C16_ChecksIndependent ==
    [][ /\ \A c \in DOMAIN mk :
            mk'[c] # mk[c] =>
                /\ mk'[c] \in AloneMoves(mk[c])
                /\ \A d \in DOMAIN mk \ {c} : mk'[d] = mk[d]
                /\ lc' = lc
        /\ \A l \in DOMAIN lc :
            lc'[l] # lc[l] =>
                /\ lc'[l] \in AloneLibMoves(lc[l])
                /\ \A k \in DOMAIN lc \ {l} : lc'[k] = lc[k]
                /\ mk' = mk ]_vars

C16_Witness ==
    /\ mk["m1"].pc = "resolved"
    /\ mk["m1"].result[1].passed = FALSE
    /\ mk["m2"].pc = "getBody1"
    /\ mk["m2"].response # mk["m1"].response
    /\ lc["l1"].pc = "resolved"
    /\ lc["l2"].pc = "scheduled"

\* ------------------------------------------------------------------ claims: patchOptional

\* A string of n dot-separated parts of pure digit text.
DottedOf(version, n) ==
    /\ Len(split(version)) = n
    /\ \A i \in 1..n : PureDigits(split(version)[i])

\* needsUpdate as the comparison and the banned list give it for the string x.
NeedsUpdateOn(lib, x) ==
    \/ compareVersions(x, lib.minVersion.major \o lib.minVersion.minor) = "-1"
    \/ /\ "bannedVersions" \in DOMAIN lib
       /\ \E i \in 1..Len(lib.bannedVersions) : lib.bannedVersions[i] = x

\* C17: with patchOptional a two-part "M.m" gets the needsUpdate of "M.m.0",
\* whatever the minVersion; a three-part "M.m.p" is compared unchanged;
\* without patchOptional nothing is added, so "M.m" is less than a three-part
\* minVersion that starts with "M.m".
C17_PatchOptional ==
    cv.pc = "done" =>
        LET lib == cv.library[1]
            version == cv.version[1]
            r == cv.result[1]
            minVersion == lib.minVersion.major \o lib.minVersion.minor
        IN  /\ (truthy(lib, "patchOptional") /\ DottedOf(version, 2)) =>
                  (r.needsUpdate <=> NeedsUpdateOn(lib, version \o <<".", "0">>))
            /\ DottedOf(version, 3) => (r.needsUpdate <=> NeedsUpdateOn(lib, version))
            /\ ~truthy(lib, "patchOptional") =>
                  /\ r.needsUpdate <=> NeedsUpdateOn(lib, version)
                  /\ ( /\ DottedOf(version, 2)
                       /\ DottedOf(minVersion, 3)
                       /\ SubSeq(split(minVersion), 1, 2) = split(version) )
                     => r.needsUpdate

C17_Witness ==
    /\ cv.pc = "done"
    /\ cv.library[1].name = "jQuery Easing"
    /\ truthy(cv.library[1], "patchOptional")
    /\ cv.version[1] = V_1_3
    /\ cv.result[1].needsUpdate = FALSE

\* ------------------------------------------------------------------ claims: the threshold in force

\* One comparison with every element held to its own threshold when it has
\* one, 0 too, and to the global default when it has none.
OwnThresholdApplied(cfg, cr) ==
    \A i \in 1..Len(cfg.check_markup_elements) :
        LET elem == cfg.check_markup_elements[i]
            e == cr.results[i]
            lo == Min2(e.edgeCount, e.chromeCount)
            hi == Max2(e.edgeCount, e.chromeCount)
            thr == IF "threshold" \in DOMAIN elem THEN elem.threshold
                   ELSE cfg.check_markup_default_threshold
        IN  /\ e.threshold = thr
            /\ e.passed <=> (hi = 0 \/ lo * thr.den >= thr.num * hi)
            /\ ("threshold" \in DOMAIN elem /\ elem.threshold.num = 0) => e.passed

\* C18: the threshold applied to an element is its own whenever it has one,
\* for every value from 0 to 1, and the global default only when it has none;
\* an element with threshold 0 passes for any pair of counts.
C18_OwnThresholdEvenZero ==
    \A c \in DOMAIN mk :
        /\ mk[c].compareResults # None => OwnThresholdApplied(config, mk[c].compareResults[1])
        /\ mk[c].compareResults2 # None => OwnThresholdApplied(config, mk[c].compareResults2[1])

\* ------------------------------------------------------------------ claims: the deferred scan

\* C19: the library check does no work in check(): the call leaves a pending
\* promise and an unscanned page; the scan runs in a later turn, in one piece,
\* against the registry active at that moment, so a merge made between the
\* call and the scan decides the registry the scan reads.
C19_ScanReadsRegistryAtScanTime ==
    [][ \A l \in DOMAIN lc :
          /\ (lc[l].pc = "idle" /\ lc'[l] # lc[l]) =>
                /\ lc'[l].pc = "scheduled"
                /\ lc'[l].test = None
                /\ lc'[l].registry = None
          /\ (lc[l].pc = "scheduled" /\ lc'[l] # lc[l]) =>
                /\ lc'[l].pc = "resolved"
                /\ lc'[l].registry = Some(libraries)
                /\ lc'[l].test = Some(scan(libraries, lc[l].website[1]))
                /\ libraries' = libraries ]_vars

\* C19 witness: check() was called under the built-in registry, a merge came
\* before the scan, and the scan gave what the merged registry gives.
C19_Witness ==
    \E l \in DOMAIN lc :
        /\ lc[l].pc = "resolved"
        /\ lc[l].builtinAtCall
        /\ lc[l].registry # Some(original_libraries)
        /\ lc[l].test # Some(scan(original_libraries, lc[l].website[1]))

\* ------------------------------------------------------------------ claims: settling

\* C20: a markup check settles exactly once.  Its promise is resolved or
\* rejected at most once, it is settled exactly when the check has ended, and
\* a check that was called and has not settled yet still has a callback to
\* run (a fetch to complete, a body to decode): it cannot stay pending for
\* ever, whether the body came with a content-encoding header or without.
C20_SettlesExactlyOnce ==
    \A c \in DOMAIN mk :
        /\ mk[c].settled <= 1
        /\ mk[c].settled = 1 <=> mk[c].pc \in {"resolved", "rejected"}
        /\ mk[c].pc = "resolved" => mk[c].result # None /\ mk[c].error = None
        /\ mk[c].pc = "rejected" => mk[c].error # None /\ mk[c].result = None
        /\ (mk[c].pc # "idle" /\ mk[c].settled = 0) => ENABLED MarkupStep(c)

\* ------------------------------------------------------------------ claims: the caller's override list

\* C21: merge(c) leaves its argument untouched and unaliased.  After the
\* call on the built-in defaults no object of the override list has gained or
\* changed a field, and no descriptor of the list built is an object of the
\* override list, so nothing done to c later, and no second entry of c with
\* the same new name, reaches a descriptor of the registry.
C21_ArgumentUntouchedUnaliased ==
    (mg.pc = "done" /\ mg.libraries = original_libraries) =>
        /\ mg.st[1].libconfig = mg.libconfig
        /\ \A p \in 1..Len(mg.st[1].refs) : mg.st[1].refs[p] <= 0

====
